---- MODULE Spec2Model ----
(***************************************************************************)
(* Model of the offline template compiler (OfflineCompiler):               *)
(* compileTemplates, loadAndCompileStylesheet and the naming / dependency  *)
(* resolution helpers.                                                     *)
(*                                                                         *)
(* Strings are sequences of one-character strings, so that lastIndexOf,    *)
(* substring and template-string concatenation are computed character by   *)
(* character as the code computes them.                                    *)
(*                                                                         *)
(* The collaborators (style compiler, template parser, view compiler,      *)
(* emitter, xhr) are external: they are stubs that return the shapes the   *)
(* orchestrator consumes and allocate fresh placeholder objects on the     *)
(* heap.  They are total (they do not throw); the only failure of a        *)
(* collaborator that is modelled is a rejected fetch.                      *)
(*                                                                         *)
(* Every call leaves a trace of its observable steps in log: collaborator  *)
(* calls, placeholder field writes, appends to the statement accumulator   *)
(* and the emitter call, in program order.                                 *)
(***************************************************************************)
EXTENDS Integers, Sequences, FiniteSets, TLC

VARIABLES
  phase,   \* "idle" | "fetching" | "returned"
  call,    \* the call in progress or just finished
  heap,    \* placeholder objects, by identity (index)
  log,     \* events of the current call, in program order
  result   \* outcome of the current call

vars == <<phase, call, heap, log, result>>

-----------------------------------------------------------------------------
(* Bounds and input domains *)

MaxComponents == 3

\* the value of a placeholder field the collaborator left unset
Unresolved == <<>>

Types ==
  { [name |-> <<"A">>, moduleUrl |-> <<"a", "/", "b", ".", "t", "s">>],
    [name |-> <<"B">>, moduleUrl |-> <<"a", "/", "b">>],
    [name |-> <<"C">>, moduleUrl |-> <<"a", ".", "f", "o", "o">>],
    [name |-> <<"D">>, moduleUrl |-> <<"c", ".", "d", ".", "t", "s">>] }

\* the component type the templates with dependencies refer to
DepType == [name |-> <<"E">>, moduleUrl |-> <<"l", "i", "b", ".", "e", ".", "t", "s">>]

\* stand-ins for compMeta.template: 0 has no imports and no nested
\* components, 1 has style imports and nested components
Templates == {0, 1}

Metas ==
  { [type |-> t, isComponent |-> c, selector |-> <<"s", "-">> \o t.name, template |-> tpl] :
      t \in Types, c \in BOOLEAN, tpl \in Templates }

DepMeta == [type |-> DepType, isComponent |-> TRUE, selector |-> <<"s", "-", "E">>, template |-> 0]

\* NormalizedComponentWithViewDirectives; pipes only flow through to the
\* collaborators and are left out
Entry(meta) ==
  [component |-> meta,
   directives |-> IF meta.template = 1 THEN <<DepMeta>> ELSE <<>>]

RECURSIVE SeqsUpTo(_, _)
SeqsUpTo(S, n) ==
  IF n = 0 THEN {<<>>}
  ELSE LET shorter == SeqsUpTo(S, n - 1)
       IN shorter \cup {Append(s, x) : s \in {q \in shorter : Len(q) = n - 1}, x \in S}

ComponentLists == SeqsUpTo({Entry(m) : m \in Metas}, MaxComponents)

StylesheetUrls == { <<"x", ".", "c", "s", "s">>, <<"y">> }
Suffixes == { <<".", "t", "s">>, <<>>, <<".", "d", "a", "r", "t">> }
CssTexts == {0, 1, 2}
FetchErrors == {"E404", "E500"}

-----------------------------------------------------------------------------
(* String helpers *)

lastIndexOf(path, ch) ==
  IF \E i \in 1..Len(path) : path[i] = ch
  THEN (CHOOSE i \in 1..Len(path) :
          path[i] = ch /\ \A j \in (i + 1)..Len(path) : path[j] # ch) - 1
  ELSE -1

\* String.prototype.substring(start, end) with 0 <= start <= end <= length
substring(path, start, end) == SubSeq(path, start + 1, end)

_splitSuffix_firstDot(path) ==
  LET dots == {i \in 1..Len(path) : path[i] = "."}
      firstDot == IF dots = {} THEN -1
                  ELSE (CHOOSE i \in dots : \A j \in dots : i <= j) - 1
  IN IF firstDot # -1
     THEN <<substring(path, 0, firstDot), substring(path, firstDot, Len(path))>>
     ELSE <<path, <<>>>>

_splitSuffix(path) ==
  LET lastDot == lastIndexOf(path, ".")
  IN IF lastDot # -1
     THEN <<substring(path, 0, lastDot), substring(path, lastDot, Len(path))>>
     ELSE <<path, <<>>>>

_ngfactoryModuleUrl(comp) ==
  LET urlWithSuffix == _splitSuffix(comp.moduleUrl)
  IN urlWithSuffix[1] \o <<".", "n", "g", "f", "a", "c", "t", "o", "r", "y">> \o urlWithSuffix[2]

_componentFactoryName_noNg(comp) ==
  comp.name \o <<"F", "a", "c", "t", "o", "r", "y">>

_componentFactoryName(comp) ==
  comp.name \o <<"N", "g", "F", "a", "c", "t", "o", "r", "y">>

_stylesModuleUrl_alwaysShim(stylesheetUrl, shim, suffix) ==
  stylesheetUrl \o <<".", "s", "h", "i", "m">> \o suffix

_stylesModuleUrl(stylesheetUrl, shim, suffix) ==
  IF shim THEN stylesheetUrl \o <<".", "s", "h", "i", "m">> \o suffix
  ELSE stylesheetUrl \o suffix

\* the message of the BaseException thrown for a non-component
NotAComponentMessage(name) ==
  <<"C", "o", "u", "l", "d", " ", "n", "o", "t", " ", "c", "o", "m", "p", "i", "l", "e", " ", "'">>
    \o name
    \o <<"'", " ", "b", "e", "c", "a", "u", "s", "e", " ", "i", "t", " ", "i", "s", " ", "n", "o", "t",
         " ", "a", " ", "c", "o", "m", "p", "o", "n", "e", "n", "t", ".">>

_assertComponent_never(meta) == FALSE

\* TRUE when _assertComponent throws
_assertComponent(meta) == ~meta.isComponent

-----------------------------------------------------------------------------
(* Execution state threaded through one call: the placeholder heap, the    *)
(* trace, and the statement accumulator of compileTemplates.               *)

EmptySt == [heap |-> <<>>, log |-> <<>>, statements |-> <<>>]

\* var x = value; Body(x): the value is computed once, then used
Let(value, Body(_)) == CHOOSE r \in {Body(x) : x \in {value}} : TRUE

Logged(st, ev) == [st EXCEPT !.log = Append(@, ev)]

\* the last value written to (ph, field) by writes, or old if there is none
LastWrite(writes, ph, field, old) ==
  LET hits == {k \in 1..Len(writes) : writes[k].ph = ph /\ writes[k].field = field}
  IN IF hits = {} THEN old
     ELSE writes[CHOOSE k \in hits : \A j \in hits : j <= k].value

\* performs the field assignments writes, in order
ApplyWrites(st, writes) ==
  Let(writes, LAMBDA ws :
    [st EXCEPT
       !.heap = [i \in 1..Len(st.heap) |->
                   [name |-> LastWrite(ws, i, "name", st.heap[i].name),
                    moduleUrl |-> LastWrite(ws, i, "moduleUrl", st.heap[i].moduleUrl)]],
       !.log = @ \o [k \in 1..Len(ws) |->
                       [op |-> "write", ph |-> ws[k].ph, field |-> ws[k].field,
                        value |-> ws[k].value]]])

RECURSIVE Flatten(_)
Flatten(ss) == IF ss = <<>> THEN <<>> ELSE Head(ss) \o Flatten(Tail(ss))

-----------------------------------------------------------------------------
(* Collaborators *)

\* the stylesheet imports found in a component's styles (by template) or in
\* a fetched stylesheet (by css text)
StyleImports(src, shim) ==
  IF src = 0 THEN <<>>
  ELSE IF src = 1
  THEN << [moduleUrl |-> <<"b", ".", "c", "s", "s">>, isShimmed |-> TRUE],
          [moduleUrl |-> <<"c">>, isShimmed |-> FALSE] >>
  ELSE << [moduleUrl |-> <<"b", ".", "c", "s", "s">>, isShimmed |-> shim],
          [moduleUrl |-> <<"c">>, isShimmed |-> shim] >>

\* builds a StylesCompileResult with one fresh placeholder per import
StylesResult(imports, stylesVar, st) ==
  Let([id |-> Len(st.log) + 1, n |-> Len(st.heap), imports |-> imports], LAMBDA c :
    Let([k \in 1..Len(c.imports) |->
           [moduleUrl |-> c.imports[k].moduleUrl, isShimmed |-> c.imports[k].isShimmed,
            valuePlaceholder |-> c.n + k]], LAMBDA deps :
      Let([k \in 1..Len(deps) |-> [name |-> <<"s", "t", "y", "l", "e", "s">>,
                                   moduleUrl |-> Unresolved]], LAMBDA fresh :
        [st |-> [st EXCEPT !.heap = @ \o fresh],
         ret |-> [id |-> c.id,
                  statements |-> << [kind |-> "styles", owner |-> c.id, name |-> stylesVar,
                                     refs |-> [k \in 1..Len(deps) |-> c.n + k]] >>,
                  dependencies |-> deps,
                  stylesVar |-> stylesVar],
         authored |-> fresh])))

StyleCompiler_compileComponent(compMeta, st) ==
  Let(StylesResult(StyleImports(compMeta.template, FALSE),
                   <<"s", "_">> \o compMeta.type.name, st), LAMBDA r :
    [st |-> Logged(r.st, [op |-> "styleCompile", meta |-> compMeta, result |-> r.ret,
                          authored |-> r.authored]),
     ret |-> r.ret])

StyleCompiler_compileStylesheet(stylesheetUrl, cssText, shim, st) ==
  Let(StylesResult(StyleImports(cssText, shim), <<"s", "t", "y", "l", "e", "s">>, st), LAMBDA r :
    [st |-> Logged(r.st, [op |-> "styleCompile", url |-> stylesheetUrl, shim |-> shim,
                          result |-> r.ret, authored |-> r.authored]),
     ret |-> r.ret])

TemplateParser_parse(compMeta, directives, st) ==
  [st |-> Logged(st, [op |-> "parse", meta |-> compMeta]),
   ret |-> [template |-> compMeta.template, directives |-> directives]]

ViewFactoryName(compMeta) == <<"v", "F", "_">> \o compMeta.type.name

\* the unresolved dependencies of a parsed template: a view factory for
\* every directive used, and for template 1 a component factory and a
\* dependency of a kind the orchestrator does not know
ViewDependencies(parsedTemplate, n) ==
  LET dirs == parsedTemplate.directives
      vf == [k \in 1..Len(dirs) |->
               [kind |-> "ViewFactoryDependency", comp |-> dirs[k], placeholder |-> n + k]]
      m == n + Len(dirs)
  IN IF parsedTemplate.template = 1
     THEN vf \o << [kind |-> "ComponentFactoryDependency", comp |-> DepType,
                    placeholder |-> m + 1],
                   [kind |-> "OtherDependency", comp |-> DepType, placeholder |-> m + 2] >>
     ELSE vf

\* the placeholder as the view compiler creates it
AuthoredPlaceholder(dep) ==
  IF dep.kind = "ViewFactoryDependency"
  THEN [name |-> ViewFactoryName(dep.comp), moduleUrl |-> Unresolved]
  ELSE IF dep.kind = "ComponentFactoryDependency"
  THEN [name |-> Unresolved, moduleUrl |-> Unresolved]
  ELSE [name |-> <<"o", "t", "h", "e", "r">>, moduleUrl |-> <<"m", ".", "j", "s">>]

ViewCompiler_compileComponent(compMeta, parsedTemplate, st) ==
  Let(ViewDependencies(parsedTemplate, Len(st.heap)), LAMBDA deps :
    Let([id |-> Len(st.log) + 1,
         statements |-> << [kind |-> "view", owner |-> Len(st.log) + 1,
                            name |-> ViewFactoryName(compMeta),
                            refs |-> [k \in 1..Len(deps) |-> deps[k].placeholder]] >>,
         dependencies |-> deps,
         viewFactoryVar |-> ViewFactoryName(compMeta)], LAMBDA ret :
      Let([k \in 1..Len(deps) |-> AuthoredPlaceholder(deps[k])], LAMBDA fresh :
        [st |-> Logged([st EXCEPT !.heap = @ \o fresh],
                       [op |-> "viewCompile", meta |-> compMeta, result |-> ret,
                        authored |-> fresh]),
         ret |-> ret])))

OutputEmitter_emitStatements(moduleUrl, statements, exportedVars, st) ==
  [st |-> Logged(st, [op |-> "emit", moduleUrl |-> moduleUrl, statements |-> statements,
                      exportedVars |-> exportedVars]),
   ret |-> [emitted |-> Len(st.log) + 1]]

\* the host component wrapping a component behind its selector
createHostComponentMeta(componentType, componentSelector) ==
  [type |-> [name |-> componentType.name \o <<"_", "H", "o", "s", "t">>,
             moduleUrl |-> componentType.moduleUrl],
   isComponent |-> TRUE,
   selector |-> <<"*">>,
   template |-> 0]

-----------------------------------------------------------------------------
(* Dependency resolution *)

\* the field assignments _resolveViewStatements makes for one dependency
ViewDepWrites_elseAll(dep) ==
  IF dep.kind = "ViewFactoryDependency"
  THEN << [ph |-> dep.placeholder, field |-> "moduleUrl",
           value |-> _ngfactoryModuleUrl(dep.comp.type)] >>
  ELSE << [ph |-> dep.placeholder, field |-> "name", value |-> _componentFactoryName(dep.comp)],
          [ph |-> dep.placeholder, field |-> "moduleUrl",
           value |-> _ngfactoryModuleUrl(dep.comp)] >>

ViewDepWrites(dep) ==
  IF dep.kind = "ViewFactoryDependency"
  THEN << [ph |-> dep.placeholder, field |-> "moduleUrl",
           value |-> _ngfactoryModuleUrl(dep.comp.type)] >>
  ELSE IF dep.kind = "ComponentFactoryDependency"
  THEN << [ph |-> dep.placeholder, field |-> "name", value |-> _componentFactoryName(dep.comp)],
          [ph |-> dep.placeholder, field |-> "moduleUrl",
           value |-> _ngfactoryModuleUrl(dep.comp)] >>
  ELSE <<>>

_resolveViewStatements(compileResult, st) ==
  LET deps == compileResult.dependencies
  IN [st |-> ApplyWrites(st, Flatten([k \in 1..Len(deps) |-> ViewDepWrites(deps[k])])),
      ret |-> compileResult.statements]

_resolveStyleStatements_ownSuffix(containingModuleUrl, compileResult, st) ==
  LET deps == compileResult.dependencies
  IN [st |-> ApplyWrites(st, [k \in 1..Len(deps) |->
                [ph |-> deps[k].valuePlaceholder, field |-> "moduleUrl",
                 value |-> _stylesModuleUrl(deps[k].moduleUrl, deps[k].isShimmed,
                                            _splitSuffix(deps[k].moduleUrl)[2])]]),
      ret |-> compileResult.statements]

_resolveStyleStatements(containingModuleUrl, compileResult, st) ==
  LET containingSuffix == _splitSuffix(containingModuleUrl)[2]
      deps == compileResult.dependencies
  IN [st |-> ApplyWrites(st, [k \in 1..Len(deps) |->
                [ph |-> deps[k].valuePlaceholder, field |-> "moduleUrl",
                 value |-> _stylesModuleUrl(deps[k].moduleUrl, deps[k].isShimmed,
                                            containingSuffix)]]),
      ret |-> compileResult.statements]

\* ListWrapper.addAll(targetStatements, source)
addAll(st, source) ==
  [st EXCEPT !.statements = @ \o source,
             !.log = Append(@, [op |-> "addAll", stmts |-> source])]

-----------------------------------------------------------------------------
(* OfflineCompiler *)

_codegenSourceModule(moduleUrl, statements, exportedVars, st) ==
  Let(OutputEmitter_emitStatements(moduleUrl, statements, exportedVars, st), LAMBDA e :
    [st |-> e.st, ret |-> [moduleUrl |-> moduleUrl, source |-> e.ret]])

_codgenStyles(inputUrl, shim, suffix, stylesCompileResult, st) ==
  _codegenSourceModule(_stylesModuleUrl(inputUrl, shim, suffix),
                       stylesCompileResult.statements,
                       <<stylesCompileResult.stylesVar>>, st)

_compileComponent_appendFirst(compMeta, directives, st) ==
  Let(StyleCompiler_compileComponent(compMeta, st), LAMBDA style :
  Let(TemplateParser_parse(compMeta, directives, style.st), LAMBDA parsed :
  Let(ViewCompiler_compileComponent(compMeta, parsed.ret, parsed.st), LAMBDA view :
  Let(addAll(view.st, style.ret.statements), LAMBDA s1 :
  Let(_resolveStyleStatements(compMeta.type.moduleUrl, style.ret, s1), LAMBDA rs :
  Let(addAll(rs.st, view.ret.statements), LAMBDA s2 :
  Let(_resolveViewStatements(view.ret, s2), LAMBDA rv :
    [st |-> rv.st, ret |-> view.ret.viewFactoryVar])))))))

_compileComponent(compMeta, directives, st) ==
  Let(StyleCompiler_compileComponent(compMeta, st), LAMBDA style :
  Let(TemplateParser_parse(compMeta, directives, style.st), LAMBDA parsed :
  Let(ViewCompiler_compileComponent(compMeta, parsed.ret, parsed.st), LAMBDA view :
  Let(_resolveStyleStatements(compMeta.type.moduleUrl, style.ret, view.st), LAMBDA rs :
  Let(addAll(rs.st, rs.ret), LAMBDA s1 :
  Let(_resolveViewStatements(view.ret, s1), LAMBDA rv :
  Let(addAll(rv.st, rv.ret), LAMBDA s2 :
    [st |-> s2, ret |-> view.ret.viewFactoryVar])))))))

NoException == <<>>

\* the declaration of the component factory variable
ComponentFactoryStmt(compFactoryVar, compMeta, hostViewFactoryVar) ==
  [kind |-> "factory", owner |-> 0, name |-> compFactoryVar, refs |-> <<>>,
   args |-> <<compMeta.selector, hostViewFactoryVar, compMeta.type.name>>]

\* the body of the components.forEach callback; acc carries the execution
\* state, exportedVars and the exception that ended the loop, if any
CompileEntry(componentWithDirs, acc) ==
  LET compMeta == componentWithDirs.component
  IN IF acc.thrown # NoException THEN acc
     ELSE IF _assertComponent(compMeta)
     THEN [acc EXCEPT !.thrown = NotAComponentMessage(compMeta.type.name)]
     ELSE
       Let(_compileComponent(compMeta, componentWithDirs.directives, acc.st), LAMBDA comp :
       Let(createHostComponentMeta(compMeta.type, compMeta.selector), LAMBDA hostMeta :
       Let(_compileComponent(hostMeta, <<compMeta>>, comp.st), LAMBDA host :
       Let(_componentFactoryName(compMeta.type), LAMBDA compFactoryVar :
       Let(ComponentFactoryStmt(compFactoryVar, compMeta, host.ret), LAMBDA decl :
         [st |-> [host.st EXCEPT !.statements = Append(@, decl),
                                 !.log = Append(@, [op |-> "push", stmt |-> decl])],
          exportedVars |-> acc.exportedVars \o <<comp.ret, compFactoryVar>>,
          thrown |-> NoException])))))

RECURSIVE ForEachComponent(_, _)
ForEachComponent(components, acc) ==
  IF components = <<>> THEN acc
  ELSE Let(CompileEntry(Head(components), acc), LAMBDA next :
         ForEachComponent(Tail(components), next))

NoComponentsGiven ==
  <<"N", "o", " ", "c", "o", "m", "p", "o", "n", "e", "n", "t", "s", " ", "g", "i", "v", "e", "n">>

NoResult == [status |-> "none"]

Thrown(message) == [status |-> "thrown", message |-> message]

compileTemplates_noGuard(components, st) ==
  IF Len(components) = 0
  THEN [st |-> st, ret |-> Thrown(<<"T", "y", "p", "e", "E", "r", "r", "o", "r">>)]
  ELSE
    Let(_ngfactoryModuleUrl(components[1].component.type), LAMBDA moduleUrl :
    Let(ForEachComponent(components,
          [st |-> st, exportedVars |-> <<>>, thrown |-> NoException]), LAMBDA loop :
      IF loop.thrown # NoException
      THEN [st |-> loop.st, ret |-> Thrown(loop.thrown)]
      ELSE Let(_codegenSourceModule(moduleUrl, loop.st.statements, loop.exportedVars,
                                    loop.st), LAMBDA m :
             [st |-> m.st, ret |-> [status |-> "ok", value |-> m.ret]])))

compileTemplates(components, st) ==
  IF Len(components) = 0
  THEN [st |-> st, ret |-> Thrown(NoComponentsGiven)]
  ELSE
    Let(_ngfactoryModuleUrl(components[1].component.type), LAMBDA moduleUrl :
    Let(ForEachComponent(components,
          [st |-> st, exportedVars |-> <<>>, thrown |-> NoException]), LAMBDA loop :
      IF loop.thrown # NoException
      THEN [st |-> loop.st, ret |-> Thrown(loop.thrown)]
      ELSE Let(_codegenSourceModule(moduleUrl, loop.st.statements, loop.exportedVars,
                                    loop.st), LAMBDA m :
             [st |-> m.st, ret |-> [status |-> "ok", value |-> m.ret]])))

\* the dependency loop body of the fetch callback: records the import and
\* resolves its placeholder; acc carries importedUrls and the writes made
ResolveImport_pushResolved(dep, suffix, acc) ==
  Let(_stylesModuleUrl(dep.moduleUrl, dep.isShimmed, suffix), LAMBDA url :
    [importedUrls |-> Append(acc.importedUrls, url),
     writes |-> Append(acc.writes,
                  [ph |-> dep.valuePlaceholder, field |-> "moduleUrl", value |-> url])])

ResolveImport(dep, suffix, acc) ==
  [importedUrls |-> Append(acc.importedUrls, dep.moduleUrl),
   writes |-> Append(acc.writes,
                [ph |-> dep.valuePlaceholder, field |-> "moduleUrl",
                 value |-> _stylesModuleUrl(dep.moduleUrl, dep.isShimmed, suffix)])]

RECURSIVE ForEachImport(_, _, _)
ForEachImport(deps, suffix, acc) ==
  IF deps = <<>> THEN acc
  ELSE Let(ResolveImport(Head(deps), suffix, acc), LAMBDA next :
         ForEachImport(Tail(deps), suffix, next))

\* the callback passed to then(): runs when the fetch has delivered cssText
FetchCallback_emitFirst(stylesheetUrl, shim, suffix, cssText, st) ==
  Let(StyleCompiler_compileStylesheet(stylesheetUrl, cssText, shim, st), LAMBDA compiled :
  Let(_codgenStyles(stylesheetUrl, shim, suffix, compiled.ret, compiled.st), LAMBDA m :
  Let(ForEachImport(compiled.ret.dependencies, suffix,
                    [importedUrls |-> <<>>, writes |-> <<>>]), LAMBDA loop :
    [st |-> ApplyWrites(m.st, loop.writes),
     ret |-> [status |-> "ok",
              value |-> [source |-> m.ret, importedUrls |-> loop.importedUrls]]])))

FetchCallback(stylesheetUrl, shim, suffix, cssText, st) ==
  Let(StyleCompiler_compileStylesheet(stylesheetUrl, cssText, shim, st), LAMBDA compiled :
  Let(ForEachImport(compiled.ret.dependencies, suffix,
                    [importedUrls |-> <<>>, writes |-> <<>>]), LAMBDA loop :
  Let(ApplyWrites(compiled.st, loop.writes), LAMBDA resolved :
  Let(_codgenStyles(stylesheetUrl, shim, suffix, compiled.ret, resolved), LAMBDA m :
    [st |-> m.st,
     ret |-> [status |-> "ok",
              value |-> [source |-> m.ret, importedUrls |-> loop.importedUrls]]]))))

-----------------------------------------------------------------------------
(* Actions *)

NoCall == [op |-> "none"]

Init ==
  /\ phase = "idle"
  /\ call = NoCall
  /\ heap = <<>>
  /\ log = <<>>
  /\ result = NoResult

\* a caller invokes compileTemplates; the call is synchronous
CompileTemplates ==
  /\ phase = "idle"
  /\ \E components \in ComponentLists :
       \E r \in {compileTemplates(components, EmptySt)} :
          /\ call' = [op |-> "compileTemplates", components |-> components]
          /\ heap' = r.st.heap
          /\ log' = r.st.log
          /\ result' = r.ret
  /\ phase' = "returned"

\* a caller invokes loadAndCompileStylesheet: the fetch is started and the
\* promise is pending
LoadAndCompileStylesheet ==
  /\ phase = "idle"
  /\ \E stylesheetUrl \in StylesheetUrls, shim \in BOOLEAN, suffix \in Suffixes :
       /\ call' = [op |-> "loadAndCompileStylesheet", stylesheetUrl |-> stylesheetUrl,
                   shim |-> shim, suffix |-> suffix]
       /\ log' = <<[op |-> "get", url |-> stylesheetUrl]>>
  /\ heap' = <<>>
  /\ result' = [status |-> "pending"]
  /\ phase' = "fetching"

\* the fetch delivers the stylesheet text and the callback runs to completion
FetchResolved ==
  /\ phase = "fetching"
  /\ \E cssText \in CssTexts :
       \E r \in {FetchCallback(call.stylesheetUrl, call.shim, call.suffix, cssText,
                               [heap |-> heap,
                                log |-> Append(log, [op |-> "fetched", cssText |-> cssText]),
                                statements |-> <<>>])} :
          /\ heap' = r.st.heap
          /\ log' = r.st.log
          /\ result' = r.ret
  /\ phase' = "returned"
  /\ UNCHANGED call

\* the fetch fails: then() passes the rejection on without running the callback
FetchRejected ==
  /\ phase = "fetching"
  /\ \E err \in FetchErrors :
       /\ log' = Append(log, [op |-> "fetchFailed", error |-> err])
       /\ result' = [status |-> "rejected", error |-> err]
  /\ phase' = "returned"
  /\ UNCHANGED <<call, heap>>

\* the caller has consumed the outcome; the next call starts from scratch
Return ==
  /\ phase = "returned"
  /\ phase' = "idle"
  /\ call' = NoCall
  /\ heap' = <<>>
  /\ log' = <<>>
  /\ result' = NoResult

Next ==
  \/ CompileTemplates
  \/ LoadAndCompileStylesheet
  \/ FetchResolved
  \/ FetchRejected
  \/ Return

Spec == Init /\ [][Next]_vars

-----------------------------------------------------------------------------
(* Vocabulary of the properties *)

Idx(op) == {i \in 1..Len(log) : log[i].op = op}

IsCompileTemplates == phase = "returned" /\ call.op = "compileTemplates"

IsStylesheet == phase = "returned" /\ call.op = "loadAndCompileStylesheet"

Components == call.components

NonComponents == {i \in 1..Len(Components) : ~Components[i].component.isComponent}

Dots(U) == {i \in 1..Len(U) : U[i] = "."}

MaxOf(S) == CHOOSE i \in S : \A j \in S : j <= i

MinOf(S) == CHOOSE i \in S : \A j \in S : i <= j

\* the part of U from its last '.', empty when U has no '.'
SuffixOf(U) == IF Dots(U) = {} THEN <<>> ELSE SubSeq(U, MaxOf(Dots(U)), Len(U))

BaseOf(U) == IF Dots(U) = {} THEN U ELSE SubSeq(U, 1, MaxOf(Dots(U)) - 1)

NgfactoryInfix == <<".", "n", "g", "f", "a", "c", "t", "o", "r", "y">>

ShimInfix == <<".", "s", "h", "i", "m">>

NgFactorySuffix == <<"N", "g", "F", "a", "c", "t", "o", "r", "y">>

FactoryUrlOf(U) == BaseOf(U) \o NgfactoryInfix \o SuffixOf(U)

Contains(s, t) == \E i \in 0..(Len(s) - Len(t)) : SubSeq(s, i + 1, i + Len(t)) = t

\* the k-th event of kind op
Nth(op, k) ==
  log[CHOOSE i \in Idx(op) : Cardinality({j \in Idx(op) : j <= i}) = k]

-----------------------------------------------------------------------------
\* C1: for a non-empty list of components, compileTemplates calls the emitter
\* exactly once, as its last step after every entry was processed, and returns
\* one SourceModule whose moduleUrl is base + '.ngfactory' + suffix of the
\* FIRST entry's module URL (suffix from the last '.', empty without a '.').
C1_FactoryUrlOfFirst ==
  (IsCompileTemplates /\ Len(Components) >= 1 /\ NonComponents = {}) =>
    /\ result.status = "ok"
    /\ Idx("emit") = {Len(log)}
    /\ Cardinality(Idx("push")) = Len(Components)
    /\ result.value.moduleUrl = FactoryUrlOf(Components[1].component.type.moduleUrl)
    /\ log[Len(log)].moduleUrl = result.value.moduleUrl
    /\ Components[1].component.type.moduleUrl = <<"a", "/", "b", ".", "t", "s">>
         => result.value.moduleUrl =
              <<"a", "/", "b", ".", "n", "g", "f", "a", "c", "t", "o", "r", "y", ".", "t", "s">>
    /\ Components[1].component.type.moduleUrl = <<"a", "/", "b">>
         => result.value.moduleUrl =
              <<"a", "/", "b", ".", "n", "g", "f", "a", "c", "t", "o", "r", "y">>

C1_Witness ==
  /\ IsCompileTemplates /\ result.status = "ok"
  /\ Len(Components) = 3
  /\ Components[1].component.type.moduleUrl = <<"c", ".", "d", ".", "t", "s">>
  /\ Components[2].component.type.moduleUrl = <<"a", "/", "b">>
  /\ Components[3].component.type.moduleUrl = <<"a", ".", "f", "o", "o">>
  /\ result.value.moduleUrl =
       <<"c", ".", "d", ".", "n", "g", "f", "a", "c", "t", "o", "r", "y", ".", "t", "s">>

\* the exported symbols handed to the emitter
ExportedVars == log[Len(log)].exportedVars

\* C2 as stated: the exported-symbol list has 3*N entries.
C2_ThreePerComponent ==
  (IsCompileTemplates /\ result.status = "ok") =>
    Len(ExportedVars) = 3 * Len(Components)

\* C2 amended: the exported-symbol list has 2*N entries: for each component,
\* in input order, the view-factory name of its own view followed by its
\* component-factory name '<TypeName>NgFactory'; the host view-factory name is
\* not pushed; duplicates contribute their own entries.
C2_TwoPerComponent ==
  (IsCompileTemplates /\ result.status = "ok") =>
    /\ Len(ExportedVars) = 2 * Len(Components)
    /\ Cardinality(Idx("viewCompile")) = 2 * Len(Components)
    /\ \A i \in 1..Len(Components) :
         /\ Nth("viewCompile", 2 * i - 1).meta = Components[i].component
         /\ ExportedVars[2 * i - 1] = Nth("viewCompile", 2 * i - 1).result.viewFactoryVar
         /\ ExportedVars[2 * i] = Components[i].component.type.name \o NgFactorySuffix

C2_Witness ==
  /\ IsCompileTemplates /\ result.status = "ok"
  /\ Len(Components) = 2
  /\ Components[1] = Components[2]
  /\ Len(ExportedVars) = 4
  /\ ExportedVars[4] = <<"A", "N", "g", "F", "a", "c", "t", "o", "r", "y">>

\* C3: when some entry is not a component, the call throws the error naming
\* the type of the (first) such entry, the emitter is not invoked and no
\* SourceModule is returned, also after earlier entries were appended.
C3_NonComponentAborts ==
  (IsCompileTemplates /\ NonComponents # {}) =>
    /\ result.status = "thrown"
    /\ result.message # NoComponentsGiven
    /\ Contains(result.message,
                <<"'">> \o Components[MinOf(NonComponents)].component.type.name \o <<"'">>)
    /\ Contains(result.message, <<"n", "o", "t", " ", "a", " ", "c", "o", "m", "p", "o", "n", "e", "n", "t">>)
    /\ Idx("emit") = {}
    /\ "value" \notin DOMAIN result

C3_Witness ==
  /\ IsCompileTemplates
  /\ Len(Components) = 3
  /\ NonComponents = {2}
  /\ Components[1].component.type.name # Components[2].component.type.name
  /\ Idx("addAll") # {}
  /\ result.status = "thrown"

\* the result of the style compiler call made by the fetch callback
StylesheetResult == log[MinOf(Idx("styleCompile"))].result

\* C4: importedUrls of a successful loadAndCompileStylesheet equals, element
\* for element and in order, the moduleUrl of the style compiler's
\* dependencies as they were before resolution.
C4_ImportedUrlsRaw ==
  (IsStylesheet /\ result.status = "ok") =>
    LET deps == StylesheetResult.dependencies
    IN /\ Len(result.value.importedUrls) = Len(deps)
       /\ \A k \in 1..Len(deps) : result.value.importedUrls[k] = deps[k].moduleUrl

C4_Witness ==
  /\ IsStylesheet /\ result.status = "ok"
  /\ call.shim /\ call.suffix = <<".", "t", "s">>
  /\ result.value.importedUrls = << <<"b", ".", "c", "s", "s">>, <<"c">> >>
  /\ heap[1].moduleUrl = <<"b", ".", "c", "s", "s", ".", "s", "h", "i", "m", ".", "t", "s">>

\* C5: in compileTemplates every stylesheet dependency of a component defined
\* in module M has its placeholder module URL set to depUrl + ('.shim' when
\* the dependency is shimmed) + suffix(M), whatever suffix depUrl itself has.
C5_ContainingSuffix ==
  IsCompileTemplates =>
    \A i \in Idx("styleCompile") :
      \A k \in 1..Len(log[i].result.dependencies) :
        LET dep == log[i].result.dependencies[k]
            M == log[i].meta.type.moduleUrl
        IN /\ heap[dep.valuePlaceholder].moduleUrl =
                dep.moduleUrl \o (IF dep.isShimmed THEN ShimInfix ELSE <<>>) \o SuffixOf(M)
           /\ (M = <<"a", ".", "f", "o", "o">> /\ dep.isShimmed
                 /\ dep.moduleUrl = <<"b", ".", "c", "s", "s">>)
                => heap[dep.valuePlaceholder].moduleUrl =
                     <<"b", ".", "c", "s", "s", ".", "s", "h", "i", "m", ".", "f", "o", "o">>

C5_Witness ==
  /\ IsCompileTemplates
  /\ \E i \in Idx("styleCompile") :
       /\ log[i].meta.type.moduleUrl = <<"a", ".", "f", "o", "o">>
       /\ Len(log[i].result.dependencies) = 2
       /\ heap[log[i].result.dependencies[1].valuePlaceholder].moduleUrl =
            <<"b", ".", "c", "s", "s", ".", "s", "h", "i", "m", ".", "f", "o", "o">>
       /\ heap[log[i].result.dependencies[2].valuePlaceholder].moduleUrl =
            <<"c", ".", "f", "o", "o">>

\* C6 as stated: in loadAndCompileStylesheet every dependency's placeholder is
\* resolved with the shim flag passed to the call, whatever marking the
\* dependency itself carries.
C6_CallShim ==
  (IsStylesheet /\ result.status = "ok") =>
    \A k \in 1..Len(StylesheetResult.dependencies) :
      LET dep == StylesheetResult.dependencies[k]
      IN heap[dep.valuePlaceholder].moduleUrl =
           dep.moduleUrl \o (IF call.shim THEN ShimInfix ELSE <<>>) \o call.suffix

\* C6 amended: every dependency's placeholder is resolved with the
\* styles-module-URL rule applied to the dependency's URL, the dependency's
\* OWN shim marking and the suffix passed to the call.
C6_DependencyShim ==
  (IsStylesheet /\ result.status = "ok") =>
    \A k \in 1..Len(StylesheetResult.dependencies) :
      LET dep == StylesheetResult.dependencies[k]
      IN heap[dep.valuePlaceholder].moduleUrl =
           dep.moduleUrl \o (IF dep.isShimmed THEN ShimInfix ELSE <<>>) \o call.suffix

C6_Witness ==
  /\ IsStylesheet /\ result.status = "ok"
  /\ call.shim
  /\ \E k \in 1..Len(StylesheetResult.dependencies) :
       /\ ~StylesheetResult.dependencies[k].isShimmed
       /\ heap[StylesheetResult.dependencies[k].valuePlaceholder].moduleUrl =
            StylesheetResult.dependencies[k].moduleUrl \o call.suffix

\* C7: loadAndCompileStylesheet calls the fetcher exactly once, first; while
\* the fetch is pending nothing else has happened; after it completes the
\* style compiler call, the placeholder writes and the emitter call follow in
\* that order in one step; a rejected fetch rejects the result with the same
\* failure without any style compiler call, placeholder write or emitter call.
C7_SingleSuspension ==
  call.op = "loadAndCompileStylesheet" =>
    /\ Idx("get") = {1}
    /\ phase = "fetching" => (Len(log) = 1 /\ heap = <<>> /\ result.status = "pending")
    /\ phase = "returned" => result.status \in {"ok", "rejected"}
    /\ result.status = "ok" =>
         /\ Idx("fetched") = {2}
         /\ Idx("styleCompile") = {3}
         /\ Idx("emit") = {Len(log)}
         /\ Idx("write") = 4..(Len(log) - 1)
         /\ Cardinality(Idx("write")) = Len(StylesheetResult.dependencies)
         /\ Idx("fetchFailed") = {}
    /\ result.status = "rejected" =>
         /\ Idx("fetchFailed") = {2}
         /\ result.error = log[2].error
         /\ Len(log) = 2
         /\ heap = <<>>

C7_Witness ==
  /\ IsStylesheet /\ result.status = "ok"
  /\ Cardinality(Idx("write")) = 2
  /\ log[Len(log)].op = "emit"

\* C8: compileTemplates([]) throws 'No components given' before anything
\* else: no collaborator is invoked and no SourceModule is produced.
C8_EmptyList ==
  (IsCompileTemplates /\ Len(Components) = 0) =>
    /\ result.status = "thrown"
    /\ result.message =
         <<"N", "o", " ", "c", "o", "m", "p", "o", "n", "e", "n", "t", "s", " ",
           "g", "i", "v", "e", "n">>
    /\ log = <<>>
    /\ heap = <<>>
    /\ "value" \notin DOMAIN result

C8_Witness ==
  /\ IsCompileTemplates /\ Components = <<>>
  /\ result.status = "thrown"

\* the placeholders a compile result owns that the orchestrator recognises
Recognised(ev) ==
  IF ev.op = "styleCompile"
  THEN {ev.result.dependencies[k].valuePlaceholder : k \in 1..Len(ev.result.dependencies)}
  ELSE {ev.result.dependencies[k].placeholder :
          k \in {j \in 1..Len(ev.result.dependencies) :
                   ev.result.dependencies[j].kind \in
                     {"ViewFactoryDependency", "ComponentFactoryDependency"}}}

WritesTo(ph, field) == {w \in Idx("write") : log[w].ph = ph /\ log[w].field = field}

\* the appends of the statements of the compile result made at log index c
AppendsOf(c) ==
  {a \in Idx("addAll") : log[a].stmts # <<>> /\ log[a].stmts[1].owner = log[c].result.id}

\* C9: in compileTemplates every recognised placeholder has each of its
\* resolution fields written exactly once, before the statements of the
\* compile result owning it are appended and before the emitter is invoked;
\* at emission every recognised placeholder reachable from the emitted
\* statements is resolved.
C9_ResolveBeforeAppend ==
  IsCompileTemplates =>
    /\ \A c \in Idx("styleCompile") \cup Idx("viewCompile") :
         /\ Cardinality(AppendsOf(c)) = 1
         /\ \A ph \in Recognised(log[c]) :
              /\ Cardinality(WritesTo(ph, "moduleUrl")) = 1
              /\ Cardinality(WritesTo(ph, "name")) <= 1
              /\ \A w \in WritesTo(ph, "moduleUrl") \cup WritesTo(ph, "name") :
                   /\ c < w
                   /\ \A a \in AppendsOf(c) : w < a
                   /\ \A e \in Idx("emit") : w < e
              /\ \A k \in 1..Len(log[c].result.dependencies) :
                   (log[c].op = "viewCompile"
                      /\ log[c].result.dependencies[k].placeholder = ph)
                     => Cardinality(WritesTo(ph, "name")) =
                          (IF log[c].result.dependencies[k].kind = "ComponentFactoryDependency"
                           THEN 1 ELSE 0)
    /\ \A e \in Idx("emit") :
         \A s \in 1..Len(log[e].statements) :
           \A r \in 1..Len(log[e].statements[s].refs) :
             LET ph == log[e].statements[s].refs[r]
             IN (\E c \in Idx("styleCompile") \cup Idx("viewCompile") : ph \in Recognised(log[c]))
                  => /\ heap[ph].moduleUrl # Unresolved
                     /\ heap[ph].name # Unresolved

C9_Witness ==
  /\ IsCompileTemplates /\ result.status = "ok"
  /\ Len(Components) = 2
  /\ \A i \in 1..2 : Components[i].component.template = 1
  /\ Cardinality(Idx("write")) = 12
  /\ \E e \in Idx("emit") : Len(log[e].statements) = 10

\* C10: view resolution sets only the module URL of a view-factory
\* placeholder, sets name ('<TypeName>NgFactory') and module URL of a
\* component-factory placeholder, leaves a placeholder of any other kind as
\* authored, and returns the view compiler's statement list unchanged.
C10_ViewResolutionFrame ==
  IsCompileTemplates =>
    \A c \in Idx("viewCompile") :
      /\ \A k \in 1..Len(log[c].result.dependencies) :
           LET dep == log[c].result.dependencies[k]
               now == heap[dep.placeholder]
               was == log[c].authored[k]
           IN /\ dep.kind = "ViewFactoryDependency" =>
                   /\ now.moduleUrl = FactoryUrlOf(dep.comp.type.moduleUrl)
                   /\ now.name = was.name
              /\ dep.kind = "ComponentFactoryDependency" =>
                   /\ now.name = dep.comp.name \o NgFactorySuffix
                   /\ now.moduleUrl = FactoryUrlOf(dep.comp.moduleUrl)
              /\ dep.kind \notin {"ViewFactoryDependency", "ComponentFactoryDependency"} =>
                   now = was
      /\ \A a \in AppendsOf(c) : log[a].stmts = log[c].result.statements

C10_Witness ==
  /\ IsCompileTemplates
  /\ \E c \in Idx("viewCompile") :
       /\ Len(log[c].result.dependencies) = 3
       /\ log[c].result.dependencies[1].kind = "ViewFactoryDependency"
       /\ log[c].result.dependencies[2].kind = "ComponentFactoryDependency"
       /\ log[c].result.dependencies[3].kind = "OtherDependency"
       /\ heap[log[c].result.dependencies[3].placeholder] =
            [name |-> <<"o", "t", "h", "e", "r">>, moduleUrl |-> <<"m", ".", "j", "s">>]
       /\ heap[log[c].result.dependencies[2].placeholder] =
            [name |-> <<"E", "N", "g", "F", "a", "c", "t", "o", "r", "y">>,
             moduleUrl |-> <<"l", "i", "b", ".", "e", ".", "n", "g", "f", "a", "c", "t", "o", "r", "y",
                             ".", "t", "s">>]
       /\ AppendsOf(c) # {}

====
